---- MODULE Spec2Model ----
(***************************************************************************)
(* Scheduling core of retell-booking: candidate generation, availability   *)
(* filtering, nearby-slot selection, request validation and the book_demo  *)
(* check-then-reserve handler, modelled from src/unnamed/part_001 (the      *)
(* complete server file, lines 118-644) and the matching helpers of        *)
(* src/server.js.                                                          *)
(*                                                                         *)
(* Instants are integer seconds on the UTC time line; instant 0 is the     *)
(* Monday 00:00 UTC of week 0.  The configured zone is a fixed offset      *)
(* (America/New_York in winter, UTC-5): daylight-saving shifts are not     *)
(* modelled.  An ISO-8601 string is a record [kind, wall, off]: the wall   *)
(* clock reading in seconds and the UTC offset it is written with.         *)
(***************************************************************************)
EXTENDS Integers, Sequences, FiniteSets, TLC

VARIABLES cfg, now, calendar, sheet, req, call

vars == <<cfg, now, calendar, sheet, req, call>>

(***************************************************************************)
(* Time arithmetic (luxon DateTime / Interval as the code uses them)       *)
(***************************************************************************)
Minutes(n) == n * 60
Hours(n) == n * 3600
Days(n) == n * 86400

\* DEFAULT_TIMEZONE = "America/New_York", as a fixed offset from UTC
DEFAULT_TIMEZONE == 0 - Hours(5)

\* wall-clock reading of instant t in the configured zone
Local(t) == t + DEFAULT_TIMEZONE

\* the instant whose wall clock in the configured zone is day d (0 = Monday
\* of week 0), h:m:s
At(d, h, m, s) == Days(d) + Hours(h) + Minutes(m) + s - DEFAULT_TIMEZONE

\* dt.weekday: ISO weekday 1 (Monday) .. 7 (Sunday) in the configured zone
weekday(t) == ((Local(t) \div Days(1)) % 7) + 1

\* dt.minute
minute(t) == (Local(t) % Hours(1)) \div 60

\* dt.startOf("day")
startOfDay(t) == t - (Local(t) % Days(1))

\* day.set({ hour: h, minute: 0, second: 0, millisecond: 0 }) on a start of day
setHour(day, h) == startOfDay(day) + Hours(h)

\* DateTime.fromISO(s, { setZone: true }).setZone(DEFAULT_TIMEZONE): the instant
fromISO(s) == s.wall - s.off

\* dt.toISO() of a DateTime kept in the configured zone
toISO(t) == [kind |-> "iso", wall |-> Local(t), off |-> DEFAULT_TIMEZONE]

\* dt.toUTC().toISO()
toUTCISO(t) == [kind |-> "iso", wall |-> t, off |-> 0]

isWeekday(dt) == weekday(dt) >= 1 /\ weekday(dt) <= 5

\* overlaps on closed intervals: touching intervals count as overlapping
overlaps_Closed(a, b) == a.end >= b.start /\ a.start <= b.end

\* luxon Interval.overlaps: this.e > other.s && this.s < other.e
overlaps(a, b) == a.end > b.start /\ a.start < b.end

slotIsFree(slot, busyIntervals) == ~(\E b \in busyIntervals : overlaps(slot, b))

(***************************************************************************)
(* Configuration read once from the process environment                    *)
(***************************************************************************)
MIN_LEAD_MINUTES == cfg.lead
DEMO_DURATION_MINUTES == cfg.duration
SLOT_GRANULARITY_MINUTES == cfg.step
SEARCH_DAYS == cfg.days
WORK_START_HOUR == cfg.startHour
WORK_END_HOUR == cfg.endHour

\* getGoogleCreds finds usable credentials in the environment
GOOGLE_CREDS == cfg.creds

(***************************************************************************)
(* buildCandidateSlots                                                     *)
(***************************************************************************)
\* the day loop running while the cursor itself is before the end of hours
RECURSIVE BuildDayLoop_StartInHours(_, _, _)
BuildDayLoop_StartInHours(cursor, end, earliest) ==
  IF cursor < end
  THEN (IF cursor >= earliest
        THEN <<[start |-> cursor, end |-> cursor + Minutes(DEMO_DURATION_MINUTES)]>>
        ELSE <<>>)
       \o BuildDayLoop_StartInHours(cursor + Minutes(SLOT_GRANULARITY_MINUTES),
                                    end, earliest)
  ELSE <<>>

\* the day loop keeping only cursors strictly after earliest
RECURSIVE BuildDayLoop_StrictEarliest(_, _, _)
BuildDayLoop_StrictEarliest(cursor, end, earliest) ==
  IF cursor + Minutes(DEMO_DURATION_MINUTES) <= end
  THEN (IF cursor > earliest
        THEN <<[start |-> cursor, end |-> cursor + Minutes(DEMO_DURATION_MINUTES)]>>
        ELSE <<>>)
       \o BuildDayLoop_StrictEarliest(cursor + Minutes(SLOT_GRANULARITY_MINUTES),
                                      end, earliest)
  ELSE <<>>

\* the inner while loop of buildCandidateSlots for one day
RECURSIVE BuildDayLoop(_, _, _)
BuildDayLoop(cursor, end, earliest) ==
  IF cursor + Minutes(DEMO_DURATION_MINUTES) <= end
  THEN (IF cursor >= earliest
        THEN <<[start |-> cursor, end |-> cursor + Minutes(DEMO_DURATION_MINUTES)]>>
        ELSE <<>>)
       \o BuildDayLoop(cursor + Minutes(SLOT_GRANULARITY_MINUTES), end, earliest)
  ELSE <<>>

\* the outer loop putting later days in front of earlier ones
RECURSIVE BuildDays_LaterDaysFirst(_, _)
BuildDays_LaterDaysFirst(d, earliest) ==
  IF d < SEARCH_DAYS
  THEN LET day == startOfDay(earliest) + Days(d)
       IN BuildDays_LaterDaysFirst(d + 1, earliest)
          \o (IF ~isWeekday(day)
              THEN <<>>
              ELSE BuildDayLoop(setHour(day, WORK_START_HOUR),
                                setHour(day, WORK_END_HOUR), earliest))
  ELSE <<>>

\* the outer for loop of buildCandidateSlots from day index d on
RECURSIVE BuildDays(_, _)
BuildDays(d, earliest) ==
  IF d < SEARCH_DAYS
  THEN LET day == startOfDay(earliest) + Days(d)
       IN (IF ~isWeekday(day)
           THEN <<>>
           ELSE BuildDayLoop(setHour(day, WORK_START_HOUR),
                             setHour(day, WORK_END_HOUR), earliest))
          \o BuildDays(d + 1, earliest)
  ELSE <<>>

buildCandidateSlots(nowLocal) ==
  BuildDays(0, nowLocal + Minutes(MIN_LEAD_MINUTES))

(***************************************************************************)
(* validateRequestedStart                                                  *)
(***************************************************************************)
\* the validator without its lead-time check
validateRequestedStart_NoLead(startTimeISO, nowT) ==
  IF startTimeISO.kind = "missing"
  THEN [ok |-> FALSE, message |-> "Missing start_time."]
  ELSE IF startTimeISO.kind # "iso"
  THEN [ok |-> FALSE, message |-> "Invalid start_time format."]
  ELSE LET start == fromISO(startTimeISO)
           end == start + Minutes(DEMO_DURATION_MINUTES)
           dayStart == setHour(start, WORK_START_HOUR)
           dayEnd == setHour(start, WORK_END_HOUR)
       IN IF ~isWeekday(start)
          THEN [ok |-> FALSE, message |-> "Demos are Monday through Friday only."]
          ELSE IF start < dayStart \/ end > dayEnd
          THEN [ok |-> FALSE, message |-> "Demos can only be booked between the work hours."]
          ELSE IF minute(start) % SLOT_GRANULARITY_MINUTES # 0
          THEN [ok |-> FALSE, message |-> "Please choose a time on a step boundary."]
          ELSE [ok |-> TRUE, start |-> start]

\* the validator testing the hours window before the weekday
validateRequestedStart_HoursFirst(startTimeISO, nowT) ==
  IF startTimeISO.kind = "missing"
  THEN [ok |-> FALSE, message |-> "Missing start_time."]
  ELSE IF startTimeISO.kind # "iso"
  THEN [ok |-> FALSE, message |-> "Invalid start_time format."]
  ELSE LET start == fromISO(startTimeISO)
           end == start + Minutes(DEMO_DURATION_MINUTES)
           dayStart == setHour(start, WORK_START_HOUR)
           dayEnd == setHour(start, WORK_END_HOUR)
       IN IF start < nowT + Minutes(MIN_LEAD_MINUTES)
          THEN [ok |-> FALSE, message |-> "That time is in the past or too soon."]
          ELSE IF start < dayStart \/ end > dayEnd
          THEN [ok |-> FALSE, message |-> "Demos can only be booked between the work hours."]
          ELSE IF ~isWeekday(start)
          THEN [ok |-> FALSE, message |-> "Demos are Monday through Friday only."]
          ELSE IF minute(start) % SLOT_GRANULARITY_MINUTES # 0
          THEN [ok |-> FALSE, message |-> "Please choose a time on a step boundary."]
          ELSE [ok |-> TRUE, start |-> start]

\* the validator with the end of business hours excluded
validateRequestedStart_EndExclusive(startTimeISO, nowT) ==
  IF startTimeISO.kind = "missing"
  THEN [ok |-> FALSE, message |-> "Missing start_time."]
  ELSE IF startTimeISO.kind # "iso"
  THEN [ok |-> FALSE, message |-> "Invalid start_time format."]
  ELSE LET start == fromISO(startTimeISO)
           end == start + Minutes(DEMO_DURATION_MINUTES)
           dayStart == setHour(start, WORK_START_HOUR)
           dayEnd == setHour(start, WORK_END_HOUR)
       IN IF start < nowT + Minutes(MIN_LEAD_MINUTES)
          THEN [ok |-> FALSE, message |-> "That time is in the past or too soon."]
          ELSE IF ~isWeekday(start)
          THEN [ok |-> FALSE, message |-> "Demos are Monday through Friday only."]
          ELSE IF start < dayStart \/ end >= dayEnd
          THEN [ok |-> FALSE, message |-> "Demos can only be booked between the work hours."]
          ELSE IF minute(start) % SLOT_GRANULARITY_MINUTES # 0
          THEN [ok |-> FALSE, message |-> "Please choose a time on a step boundary."]
          ELSE [ok |-> TRUE, start |-> start]

validateRequestedStart(startTimeISO, nowT) ==
  IF startTimeISO.kind = "missing"
  THEN [ok |-> FALSE, message |-> "Missing start_time."]
  ELSE IF startTimeISO.kind # "iso"
  THEN [ok |-> FALSE, message |-> "Invalid start_time format."]
  ELSE LET start == fromISO(startTimeISO)
           end == start + Minutes(DEMO_DURATION_MINUTES)
           dayStart == setHour(start, WORK_START_HOUR)
           dayEnd == setHour(start, WORK_END_HOUR)
       IN IF start < nowT + Minutes(MIN_LEAD_MINUTES)
          THEN [ok |-> FALSE, message |-> "That time is in the past or too soon."]
          ELSE IF ~isWeekday(start)
          THEN [ok |-> FALSE, message |-> "Demos are Monday through Friday only."]
          ELSE IF start < dayStart \/ end > dayEnd
          THEN [ok |-> FALSE, message |-> "Demos can only be booked between the work hours."]
          ELSE IF minute(start) % SLOT_GRANULARITY_MINUTES # 0
          THEN [ok |-> FALSE, message |-> "Please choose a time on a step boundary."]
          ELSE [ok |-> TRUE, start |-> start]

(***************************************************************************)
(* getNextAvailableSlots / pickFirstNFreeSlots                             *)
(***************************************************************************)
\* one element of a response's slot list
SlotItem(s) == [start_time |-> toISO(s.start), end_time |-> toISO(s.end)]

\* the for loop: push each free candidate, break once free.length >= count
RECURSIVE pickFirstNFreeSlots(_, _, _, _)
pickFirstNFreeSlots(candidates, busyIntervals, n, free) ==
  IF candidates = <<>>
  THEN free
  ELSE LET s == Head(candidates)
       IN IF slotIsFree(s, busyIntervals)
          THEN LET free2 == Append(free, s)
               IN IF Len(free2) >= n
                  THEN free2
                  ELSE pickFirstNFreeSlots(Tail(candidates), busyIntervals, n, free2)
          ELSE pickFirstNFreeSlots(Tail(candidates), busyIntervals, n, free)

\* the window getNextAvailableSlots / findNearbyFreeSlots ask the calendar for
CandidateWindow(candidates) ==
  [timeMin |-> toUTCISO(candidates[1].start),
   timeMax |-> toUTCISO(candidates[Len(candidates)].end)]

\* getNextAvailableSlots after its busy query has answered
NextAvailableFrom(candidates, busy, count) ==
  LET free == pickFirstNFreeSlots(candidates, busy, count, <<>>)
  IN [i \in 1..Len(free) |-> SlotItem(free[i])]

(***************************************************************************)
(* findNearbyFreeSlots                                                     *)
(***************************************************************************)
RECURSIVE NearbyDayLoop(_, _)
NearbyDayLoop(cursor, end) ==
  IF cursor + Minutes(DEMO_DURATION_MINUTES) <= end
  THEN <<[start |-> cursor, end |-> cursor + Minutes(DEMO_DURATION_MINUTES)]>>
       \o NearbyDayLoop(cursor + Minutes(SLOT_GRANULARITY_MINUTES), end)
  ELSE <<>>

RECURSIVE NearbyDays(_, _)
NearbyDays(i, preferredStartLocal) ==
  IF i < 5
  THEN LET day == startOfDay(preferredStartLocal) + Days(i)
       IN (IF ~isWeekday(day)
           THEN <<>>
           ELSE NearbyDayLoop(setHour(day, WORK_START_HOUR),
                              setHour(day, WORK_END_HOUR)))
          \o NearbyDays(i + 1, preferredStartLocal)
  ELSE <<>>

\* the candidates findNearbyFreeSlots builds before its busy query
NearbyCandidates(preferredStartLocal) == NearbyDays(0, preferredStartLocal)

Abs(x) == IF x < 0 THEN 0 - x ELSE x

\* the candidates tagged with their distance but left in chronological order
SortByDistance_Unsorted(candidates, preferredStartLocal) ==
  [i \in 1..Len(candidates) |->
     [start |-> candidates[i].start, end |-> candidates[i].end,
      distMs |-> Abs(candidates[i].start - preferredStartLocal), idx |-> i]]

\* the sort by distance putting the later of two equidistant candidates first
SortByDistance_LaterFirst(candidates, preferredStartLocal) ==
  LET tagged == [i \in 1..Len(candidates) |->
                   [start |-> candidates[i].start, end |-> candidates[i].end,
                    distMs |-> Abs(candidates[i].start - preferredStartLocal),
                    idx |-> i]]
      Before(a, b) == a.distMs < b.distMs \/ (a.distMs = b.distMs /\ a.idx > b.idx)
  IN SortSeq(tagged, Before)

\* candidates.map(distMs).sort((a, b) => a.distMs - b.distMs): a stable sort,
\* so equal distances keep the candidates' order
SortByDistance(candidates, preferredStartLocal) ==
  LET tagged == [i \in 1..Len(candidates) |->
                   [start |-> candidates[i].start, end |-> candidates[i].end,
                    distMs |-> Abs(candidates[i].start - preferredStartLocal),
                    idx |-> i]]
      Before(a, b) == a.distMs < b.distMs \/ (a.distMs = b.distMs /\ a.idx < b.idx)
  IN SortSeq(tagged, Before)

\* the for loop over sorted: push free items not yet present, break at count
RECURSIVE NearbyPick(_, _, _, _)
NearbyPick(sorted, busy, count, out) ==
  IF sorted = <<>>
  THEN out
  ELSE LET s == Head(sorted)
       IN IF slotIsFree(s, busy)
          THEN LET item == SlotItem(s)
                   out2 == IF \E k \in 1..Len(out) : out[k].start_time = item.start_time
                           THEN out
                           ELSE Append(out, item)
               IN IF Len(out2) >= count
                  THEN out2
                  ELSE NearbyPick(Tail(sorted), busy, count, out2)
          ELSE NearbyPick(Tail(sorted), busy, count, out)

\* findNearbyFreeSlots after its busy query has answered
findNearbyFreeSlots(candidates, busy, preferredStartLocal, count) ==
  NearbyPick(SortByDistance(candidates, preferredStartLocal), busy, count, <<>>)

(***************************************************************************)
(* External collaborators: the calendar (freebusy.query, events.insert)    *)
(* and the sheet (spreadsheets.values.append)                              *)
(***************************************************************************)
Max(a, b) == IF a >= b THEN a ELSE b
Min(a, b) == IF a <= b THEN a ELSE b

\* calendar.freebusy.query: the busy periods of the calendar inside
\* [timeMin, timeMax], each as a pair of ISO strings
freebusyQuery(timeMinISO, timeMaxISO) ==
  LET lo == fromISO(timeMinISO)
      hi == fromISO(timeMaxISO)
  IN {[start |-> toUTCISO(Max(e.start, lo)), end |-> toUTCISO(Min(e.end, hi))] :
        e \in {x \in calendar : x.end > lo /\ x.start < hi}}

\* getBusyIntervals: the query's periods parsed back into Intervals
getBusyIntervals(timeMinISO, timeMaxISO) ==
  {[start |-> fromISO(b.start), end |-> fromISO(b.end)] :
     b \in freebusyQuery(timeMinISO, timeMaxISO)}

(***************************************************************************)
(* Inputs and bounds                                                       *)
(***************************************************************************)
MaxTicks == 1

\* an ISO string for instant t written with UTC offset off
ISOIn(t, off) == [kind |-> "iso", wall |-> t + off, off |-> off]
MissingInput == [kind |-> "missing", wall |-> 0, off |-> 0]
MalformedInput == [kind |-> "malformed", wall |-> 0, off |-> 0]

\* the clock at start-up of the handler runs: Monday 08:00 local
NowStart == At(0, 8, 0, 0)
TickSeconds == Minutes(30)

HandlerConfigs ==
  {[lead |-> 120, duration |-> 30, step |-> 30, days |-> 2,
    startHour |-> 9, endHour |-> 11, creds |-> TRUE]}

HandlerInputs ==
  {ISOIn(At(0, 10, 0, 0), DEFAULT_TIMEZONE), ISOIn(At(0, 10, 30, 0), 0),
   ISOIn(At(0 - 364, 10, 0, 0), DEFAULT_TIMEZONE), MalformedInput}

\* events other users of the calendar may create and delete
ExtEvents ==
  {[start |-> At(0, 10, 0, 0), end |-> At(0, 10, 30, 0), owner |-> 0]}

FnConfigs ==
  {[lead |-> 120, duration |-> 30, step |-> 30, days |-> 14,
    startHour |-> 9, endHour |-> 17, creds |-> TRUE],
   [lead |-> 60, duration |-> 30, step |-> 30, days |-> 3,
    startHour |-> 9, endHour |-> 11, creds |-> TRUE],
   [lead |-> 0, duration |-> 45, step |-> 20, days |-> 2,
    startHour |-> 9, endHour |-> 11, creds |-> TRUE],
   [lead |-> 90, duration |-> 30, step |-> 45, days |-> 3,
    startHour |-> 9, endHour |-> 12, creds |-> TRUE]}

FnNows ==
  {At(0, 8, 0, 0), At(0, 9, 10, 20), At(4, 15, 30, 0), At(5, 10, 0, 0),
   At(6, 23, 30, 0)}

FnInstants ==
  {At(0, 10, 0, 0), At(0, 9, 30, 0), At(0, 10, 15, 0), At(0, 10, 0, 30),
   At(0, 16, 30, 0), At(0, 8, 0, 0), At(1, 20, 15, 0), At(5, 10, 0, 0),
   At(5, 7, 10, 0), At(0 - 2, 10, 0, 0), At(0 - 364, 10, 0, 0),
   At(7, 10, 0, 0), At(6, 20, 0, 0), At(7, 9, 0, 0)}

FnInputs ==
  {ISOIn(t, off) : t \in FnInstants, off \in {DEFAULT_TIMEZONE, 0}}
    \cup {MissingInput, MalformedInput}

FnBusy ==
  {[start |-> At(0, 10, 0, 0), end |-> At(0, 10, 30, 0)],
   [start |-> At(0, 10, 30, 0), end |-> At(0, 11, 30, 0)],
   [start |-> At(1, 9, 0, 0), end |-> At(1, 10, 0, 0)],
   [start |-> At(7, 9, 0, 0), end |-> At(7, 9, 30, 0)]}

FnCounts == 0..3

FnPreferred ==
  {At(0, 10, 0, 0), At(0, 10, 30, 0), At(0, 10, 15, 0), At(1, 9, 0, 0),
   At(4, 10, 30, 0), At(5, 10, 0, 0), At(7, 9, 0, 0)}

(***************************************************************************)
(* Requests in flight.  A handler runs to its next await in one step;      *)
(* each await is a state in which other requests, the clock and the        *)
(* calendar's other users may act.                                         *)
(***************************************************************************)
MaxRequests == 2
Reqs == 1..MaxRequests

NoISO == [kind |-> "none", wall |-> 0, off |-> 0]

IdleReq ==
  [pc |-> "idle", route |-> "none", start_time |-> NoISO, count |-> 0,
   validation |-> [ok |-> FALSE, message |-> ""],
   start |-> 0, end |-> 0, nowRead |-> 0,
   response |-> [status |-> "none"], sent |-> 0, calls |-> <<>>]

AwaitStates ==
  {"await_alt_busy", "await_busy", "await_nearby_busy", "await_insert", "await_append",
   "slots_await_busy", "avail_await_alt", "avail_await_busy",
   "nearby_await_alt", "nearby_await_busy"}

\* an entry of a request's record of external calls
CallEntry(op, phase, a, b, busy) ==
  [op |-> op, phase |-> phase, timeMin |-> a, timeMax |-> b, busy |-> busy]

\* res.json(...) / res.status(...).json(...): the response ends the request
Respond(q, response) ==
  [q EXCEPT !.pc = "done", !.response = response, !.sent = @ + 1]

\* the handler issues an external call and awaits it
Await(q, pc, op, a, b) ==
  [q EXCEPT !.pc = pc, !.calls = Append(@, CallEntry(op, "call", a, b, {}))]

\* the awaited call returned
Returned(q, op, busy) ==
  [q EXCEPT !.calls = Append(@, CallEntry(op, "return", NoISO, NoISO, busy))]

\* a call of the handler threw
Thrown(q, op) ==
  [q EXCEPT !.calls = Append(@, CallEntry(op, "throw", NoISO, NoISO, {}))]

\* the catch block of a handler: 500 with status error
CatchResponse == [status |-> "error", message |-> "Internal server error"]

\* book_demo moving an accepted request to the following boundary
BookDemoEntry_Shifted(q, fieldsOk, start_time) ==
  LET q0 == [q EXCEPT !.route = "book_demo"]
      q1 == [q0 EXCEPT !.start_time = start_time]
      missing == ~fieldsOk \/ start_time.kind = "missing"
      validation == validateRequestedStart(start_time, now)
      candidates == buildCandidateSlots(now)
  IN IF missing
     THEN Respond(q0, [status |-> "error", message |-> "Missing required fields"])
     ELSE IF ~GOOGLE_CREDS
     THEN Respond(Thrown(q0, "credentials"), CatchResponse)
     ELSE IF ~validation.ok
     THEN LET q2 == [q1 EXCEPT !.validation = validation, !.nowRead = now]
          IN IF candidates = <<>>
             THEN Respond(q2, [status |-> "invalid_time",
                               message |-> validation.message,
                               alternatives |-> <<>>])
             ELSE Await(q2, "await_alt_busy", "freebusy",
                        CandidateWindow(candidates).timeMin,
                        CandidateWindow(candidates).timeMax)
     ELSE LET start == validation.start + Minutes(SLOT_GRANULARITY_MINUTES)
              end == start + Minutes(DEMO_DURATION_MINUTES)
              q2 == [q1 EXCEPT !.validation = validation, !.nowRead = now,
                               !.start = start, !.end = end]
          IN Await(q2, "await_busy", "freebusy", toUTCISO(start), toUTCISO(end))

\* book_demo from its entry to its first await (or its early response)
BookDemoEntry(q, fieldsOk, start_time) ==
  LET q0 == [q EXCEPT !.route = "book_demo"]
      q1 == [q0 EXCEPT !.start_time = start_time]
      missing == ~fieldsOk \/ start_time.kind = "missing"
      validation == validateRequestedStart(start_time, now)
      candidates == buildCandidateSlots(now)
  IN IF missing
     THEN Respond(q0, [status |-> "error", message |-> "Missing required fields"])
     ELSE IF ~GOOGLE_CREDS
     THEN Respond(Thrown(q0, "credentials"), CatchResponse)
     ELSE IF ~validation.ok
     THEN LET q2 == [q1 EXCEPT !.validation = validation, !.nowRead = now]
          IN IF candidates = <<>>
             THEN Respond(q2, [status |-> "invalid_time",
                               message |-> validation.message,
                               alternatives |-> <<>>])
             ELSE Await(q2, "await_alt_busy", "freebusy",
                        CandidateWindow(candidates).timeMin,
                        CandidateWindow(candidates).timeMax)
     ELSE LET start == validation.start
              end == start + Minutes(DEMO_DURATION_MINUTES)
              q2 == [q1 EXCEPT !.validation = validation, !.nowRead = now,
                               !.start = start, !.end = end]
          IN Await(q2, "await_busy", "freebusy", toUTCISO(start), toUTCISO(end))

\* requests are numbered in their order of arrival
BookDemoStart(r) ==
  /\ req[r].pc = "idle"
  /\ \A r0 \in Reqs : r0 < r => req[r0].pc # "idle"
  /\ \E fieldsOk \in BOOLEAN, start_time \in HandlerInputs :
       req' = [req EXCEPT ![r] = BookDemoEntry(@, fieldsOk, start_time)]
  /\ UNCHANGED <<cfg, now, calendar, sheet, call>>

\* the last call the request issued
LastCall(q) == q.calls[Len(q.calls)]

\* book_demo offering up to three alternatives to an invalid time
AltBusyReply_Three(r) ==
  /\ req[r].pc = "await_alt_busy"
  /\ LET q == req[r]
         busy == getBusyIntervals(LastCall(q).timeMin, LastCall(q).timeMax)
         alternatives == NextAvailableFrom(buildCandidateSlots(q.nowRead), busy, 3)
     IN req' = [req EXCEPT ![r] =
                  Respond(Returned(q, "freebusy", busy),
                          [status |-> "invalid_time",
                           message |-> q.validation.message,
                           alternatives |-> alternatives])]
  /\ UNCHANGED <<cfg, now, calendar, sheet, call>>

\* getNextAvailableSlots resumes after its busy query: invalid_time response
AltBusyReply(r) ==
  /\ req[r].pc = "await_alt_busy"
  /\ LET q == req[r]
         busy == getBusyIntervals(LastCall(q).timeMin, LastCall(q).timeMax)
         alternatives == NextAvailableFrom(buildCandidateSlots(q.nowRead), busy, 2)
     IN req' = [req EXCEPT ![r] =
                  Respond(Returned(q, "freebusy", busy),
                          [status |-> "invalid_time",
                           message |-> q.validation.message,
                           alternatives |-> alternatives])]
  /\ UNCHANGED <<cfg, now, calendar, sheet, call>>

\* book_demo reserving whatever the busy query answered
BookDemoChecked_NoCheck(q, busy) ==
  Await(Returned(q, "freebusy", busy), "await_insert", "insert",
        toISO(q.start), toISO(q.end))

\* book_demo treating a slot another request is reserving as taken
BookDemoChecked_Locked(q, busy) ==
  LET q1 == Returned(q, "freebusy", busy)
      candidates == NearbyCandidates(q.start)
      held == \E r2 \in Reqs : /\ req[r2].pc \in {"await_insert", "await_append"}
                               /\ req[r2].start = q.start
  IN IF held \/ ~slotIsFree([start |-> q.start, end |-> q.end], busy)
     THEN IF candidates = <<>>
          THEN Respond(q1, [status |-> "unavailable",
                            requested |-> SlotItem([start |-> q.start, end |-> q.end]),
                            alternatives |-> <<>>])
          ELSE Await(q1, "await_nearby_busy", "freebusy",
                     CandidateWindow(candidates).timeMin,
                     CandidateWindow(candidates).timeMax)
     ELSE Await(q1, "await_insert", "insert", toISO(q.start), toISO(q.end))

\* book_demo treating the slot as taken only when its start lies inside a
\* busy interval
BookDemoChecked_StartOnly(q, busy) ==
  LET q1 == Returned(q, "freebusy", busy)
      candidates == NearbyCandidates(q.start)
  IN IF \E b \in busy : b.start <= q.start /\ q.start < b.end
     THEN IF candidates = <<>>
          THEN Respond(q1, [status |-> "unavailable",
                            requested |-> SlotItem([start |-> q.start, end |-> q.end]),
                            alternatives |-> <<>>])
          ELSE Await(q1, "await_nearby_busy", "freebusy",
                     CandidateWindow(candidates).timeMin,
                     CandidateWindow(candidates).timeMax)
     ELSE Await(q1, "await_insert", "insert", toISO(q.start), toISO(q.end))

\* book_demo after the busy query for the requested slot
BookDemoChecked(q, busy) ==
  LET q1 == Returned(q, "freebusy", busy)
      candidates == NearbyCandidates(q.start)
  IN IF ~slotIsFree([start |-> q.start, end |-> q.end], busy)
     THEN IF candidates = <<>>
          THEN Respond(q1, [status |-> "unavailable",
                            requested |-> SlotItem([start |-> q.start, end |-> q.end]),
                            alternatives |-> <<>>])
          ELSE Await(q1, "await_nearby_busy", "freebusy",
                     CandidateWindow(candidates).timeMin,
                     CandidateWindow(candidates).timeMax)
     ELSE Await(q1, "await_insert", "insert", toISO(q.start), toISO(q.end))

BusyReply(r) ==
  /\ req[r].pc = "await_busy"
  /\ LET q == req[r]
         busy == getBusyIntervals(LastCall(q).timeMin, LastCall(q).timeMax)
     IN req' = [req EXCEPT ![r] = BookDemoChecked(q, busy)]
  /\ UNCHANGED <<cfg, now, calendar, sheet, call>>

\* findNearbyFreeSlots resumes after its busy query: unavailable response
NearbyBusyReply(r) ==
  /\ req[r].pc = "await_nearby_busy"
  /\ LET q == req[r]
         busy == getBusyIntervals(LastCall(q).timeMin, LastCall(q).timeMax)
         nearby == findNearbyFreeSlots(NearbyCandidates(q.start), busy, q.start, 2)
     IN req' = [req EXCEPT ![r] =
                  Respond(Returned(q, "freebusy", busy),
                          [status |-> "unavailable",
                           requested |-> SlotItem([start |-> q.start, end |-> q.end]),
                           alternatives |-> nearby])]
  /\ UNCHANGED <<cfg, now, calendar, sheet, call>>

\* an insert that only takes effect once the log append has succeeded
InsertReply_Uncommitted(r) ==
  /\ req[r].pc = "await_insert"
  /\ LET q == req[r]
     IN req' = [req EXCEPT ![r] =
                  Await(Returned(q, "insert", {}), "await_append", "append",
                        toISO(q.start), toISO(q.end))]
  /\ UNCHANGED <<cfg, now, calendar, sheet, call>>

\* calendar.events.insert returned: the event exists, the append is issued
InsertReply(r) ==
  /\ req[r].pc = "await_insert"
  /\ LET q == req[r]
         event == [start |-> fromISO(LastCall(q).timeMin),
                   end |-> fromISO(LastCall(q).timeMax), owner |-> r]
     IN /\ calendar' = calendar \cup {event}
        /\ req' = [req EXCEPT ![r] =
                     Await(Returned(q, "insert", {}), "await_append", "append",
                           toISO(q.start), toISO(q.end))]
  /\ UNCHANGED <<cfg, now, sheet, call>>

\* sheets.spreadsheets.values.append returned: confirmed response
AppendReply(r) ==
  /\ req[r].pc = "await_append"
  /\ LET q == req[r]
     IN /\ sheet' = Append(sheet, [start_time |-> LastCall(q).timeMin,
                                   end_time |-> LastCall(q).timeMax, owner |-> r])
        /\ req' = [req EXCEPT ![r] =
                     Respond(Returned(q, "append", {}),
                             [status |-> "confirmed",
                              start_time |-> toISO(q.start),
                              end_time |-> toISO(q.end)])]
  /\ UNCHANGED <<cfg, now, calendar, call>>

\* an awaited external call rejects in a handler without a catch block:
\* the rejection leaves the handler and nothing is sent
CallFails_Uncaught(r) ==
  /\ req[r].pc \in AwaitStates
  /\ LET q == req[r]
     IN req' = [req EXCEPT ![r] = [Thrown(q, LastCall(q).op) EXCEPT !.pc = "crashed"]]
  /\ UNCHANGED <<cfg, now, calendar, sheet, call>>

\* an awaited external call rejects: the handler's catch answers 500 error
CallFails(r) ==
  /\ req[r].pc \in AwaitStates
  /\ LET q == req[r]
     IN req' = [req EXCEPT ![r] = Respond(Thrown(q, LastCall(q).op), CatchResponse)]
  /\ UNCHANGED <<cfg, now, calendar, sheet, call>>

(***************************************************************************)
(* The read-only routes: get_slots, check_availability, get_nearby_slots   *)
(***************************************************************************)
MaxApiRequests == 1
ApiReqs == 1..MaxApiRequests

ApiCounts == {0, 2}

ApiInputs ==
  {ISOIn(At(0, 10, 0, 0), DEFAULT_TIMEZONE), ISOIn(At(0, 10, 0, 30), DEFAULT_TIMEZONE),
   MalformedInput, MissingInput}

\* getNextAvailableSlots up to its busy query (or its early return of [])
NextAvailableEntry(q, pc, emptyResponse) ==
  LET candidates == buildCandidateSlots(now)
      q1 == [q EXCEPT !.nowRead = now]
  IN IF candidates = <<>>
     THEN Respond(q1, emptyResponse)
     ELSE Await(q1, pc, "freebusy", CandidateWindow(candidates).timeMin,
                CandidateWindow(candidates).timeMax)

\* get_slots from its entry to its first await
GetSlotsEntry(q, count) ==
  LET q1 == [q EXCEPT !.route = "get_slots", !.count = count]
  IN IF ~GOOGLE_CREDS
     THEN Respond(Thrown(q1, "credentials"), CatchResponse)
     ELSE NextAvailableEntry(q1, "slots_await_busy",
                             [status |-> "no_slots", slots |-> <<>>])

GetSlotsStart(r) ==
  /\ req[r].pc = "idle"
  /\ \A r0 \in Reqs : r0 < r => req[r0].pc # "idle"
  /\ \E count \in ApiCounts : req' = [req EXCEPT ![r] = GetSlotsEntry(@, count)]
  /\ UNCHANGED <<cfg, now, calendar, sheet, call>>

\* get_slots treating an empty list as a failure
GetSlotsAnswer_ErrorWhenEmpty(q, busy) ==
  LET slots == NextAvailableFrom(buildCandidateSlots(q.nowRead), busy, q.count)
  IN IF Len(slots) > 0
     THEN Respond(Returned(q, "freebusy", busy), [status |-> "ok", slots |-> slots])
     ELSE Respond(Returned(q, "freebusy", busy), CatchResponse)

\* get_slots after the busy query of getNextAvailableSlots
GetSlotsAnswer(q, busy) ==
  LET slots == NextAvailableFrom(buildCandidateSlots(q.nowRead), busy, q.count)
  IN Respond(Returned(q, "freebusy", busy),
             [status |-> IF Len(slots) > 0 THEN "ok" ELSE "no_slots",
              slots |-> slots])

GetSlotsReply(r) ==
  /\ req[r].pc = "slots_await_busy"
  /\ LET q == req[r]
         busy == getBusyIntervals(LastCall(q).timeMin, LastCall(q).timeMax)
     IN req' = [req EXCEPT ![r] = GetSlotsAnswer(q, busy)]
  /\ UNCHANGED <<cfg, now, calendar, sheet, call>>

\* check_availability from its entry to its first await
CheckAvailabilityEntry(q, start_time) ==
  LET q1 == [q EXCEPT !.route = "check_availability", !.start_time = start_time]
      validation == validateRequestedStart(start_time, now)
      q2 == [q1 EXCEPT !.validation = validation]
  IN IF ~GOOGLE_CREDS
     THEN Respond(Thrown(q1, "credentials"), CatchResponse)
     ELSE IF ~validation.ok
     THEN NextAvailableEntry(q2, "avail_await_alt",
                             [status |-> "invalid_time", available |-> FALSE,
                              message |-> validation.message,
                              alternatives |-> <<>>])
     ELSE LET start == validation.start
              end == start + Minutes(DEMO_DURATION_MINUTES)
          IN Await([q2 EXCEPT !.nowRead = now, !.start = start, !.end = end],
                   "avail_await_busy", "freebusy", toUTCISO(start), toUTCISO(end))

CheckAvailabilityStart(r) ==
  /\ req[r].pc = "idle"
  /\ \A r0 \in Reqs : r0 < r => req[r0].pc # "idle"
  /\ \E start_time \in ApiInputs :
       req' = [req EXCEPT ![r] = CheckAvailabilityEntry(@, start_time)]
  /\ UNCHANGED <<cfg, now, calendar, sheet, call>>

\* check_availability, invalid time: the alternatives' busy query returned
CheckAvailabilityAltReply(r) ==
  /\ req[r].pc = "avail_await_alt"
  /\ LET q == req[r]
         busy == getBusyIntervals(LastCall(q).timeMin, LastCall(q).timeMax)
         alternatives == NextAvailableFrom(buildCandidateSlots(q.nowRead), busy, 2)
     IN req' = [req EXCEPT ![r] =
                  Respond(Returned(q, "freebusy", busy),
                          [status |-> "invalid_time", available |-> FALSE,
                           message |-> q.validation.message,
                           alternatives |-> alternatives])]
  /\ UNCHANGED <<cfg, now, calendar, sheet, call>>

\* check_availability: the busy query for the requested slot returned
CheckAvailabilityReply(r) ==
  /\ req[r].pc = "avail_await_busy"
  /\ LET q == req[r]
         busy == getBusyIntervals(LastCall(q).timeMin, LastCall(q).timeMax)
         available == slotIsFree([start |-> q.start, end |-> q.end], busy)
     IN req' = [req EXCEPT ![r] =
                  Respond(Returned(q, "freebusy", busy),
                          [status |-> "ok", available |-> available,
                           start_time |-> toISO(q.start),
                           end_time |-> toISO(q.end)])]
  /\ UNCHANGED <<cfg, now, calendar, sheet, call>>

\* get_nearby_slots from its entry to its first await
GetNearbyEntry(q, start_time, count) ==
  LET q1 == [q EXCEPT !.route = "get_nearby_slots", !.start_time = start_time,
                      !.count = count]
      validation == validateRequestedStart(start_time, now)
      q2 == [q1 EXCEPT !.validation = validation]
  IN IF ~GOOGLE_CREDS
     THEN Respond(Thrown(q1, "credentials"), CatchResponse)
     ELSE IF ~validation.ok
     THEN NextAvailableEntry(q2, "nearby_await_alt",
                             [status |-> "invalid_time",
                              message |-> validation.message, slots |-> <<>>])
     ELSE LET preferred == validation.start
              candidates == NearbyCandidates(preferred)
              q3 == [q2 EXCEPT !.nowRead = now, !.start = preferred]
          IN IF candidates = <<>>
             THEN Respond(q3, [status |-> "no_slots", slots |-> <<>>])
             ELSE Await(q3, "nearby_await_busy", "freebusy",
                        CandidateWindow(candidates).timeMin,
                        CandidateWindow(candidates).timeMax)

GetNearbyStart(r) ==
  /\ req[r].pc = "idle"
  /\ \A r0 \in Reqs : r0 < r => req[r0].pc # "idle"
  /\ \E start_time \in ApiInputs, count \in ApiCounts :
       req' = [req EXCEPT ![r] = GetNearbyEntry(@, start_time, count)]
  /\ UNCHANGED <<cfg, now, calendar, sheet, call>>

\* get_nearby_slots, invalid time: the busy query of getNextAvailableSlots returned
GetNearbyAltReply(r) ==
  /\ req[r].pc = "nearby_await_alt"
  /\ LET q == req[r]
         busy == getBusyIntervals(LastCall(q).timeMin, LastCall(q).timeMax)
         slots == NextAvailableFrom(buildCandidateSlots(q.nowRead), busy, q.count)
     IN req' = [req EXCEPT ![r] =
                  Respond(Returned(q, "freebusy", busy),
                          [status |-> "invalid_time",
                           message |-> q.validation.message, slots |-> slots])]
  /\ UNCHANGED <<cfg, now, calendar, sheet, call>>

\* get_nearby_slots: the busy query of findNearbyFreeSlots returned
GetNearbyReply(r) ==
  /\ req[r].pc = "nearby_await_busy"
  /\ LET q == req[r]
         busy == getBusyIntervals(LastCall(q).timeMin, LastCall(q).timeMax)
         slots == findNearbyFreeSlots(NearbyCandidates(q.start), busy, q.start, q.count)
     IN req' = [req EXCEPT ![r] =
                  Respond(Returned(q, "freebusy", busy),
                          [status |-> IF Len(slots) > 0 THEN "ok" ELSE "no_slots",
                           slots |-> slots])]
  /\ UNCHANGED <<cfg, now, calendar, sheet, call>>

(***************************************************************************)
(* The environment: the clock, and the calendar's other users              *)
(***************************************************************************)
Tick ==
  /\ now < NowStart + MaxTicks * TickSeconds
  /\ now' = now + TickSeconds
  /\ UNCHANGED <<cfg, calendar, sheet, req, call>>

ExtAdd ==
  /\ \E e \in ExtEvents \ calendar : calendar' = calendar \cup {e}
  /\ UNCHANGED <<cfg, now, sheet, req, call>>

ExtRemove ==
  /\ \E e \in ExtEvents \cap calendar : calendar' = calendar \ {e}
  /\ UNCHANGED <<cfg, now, sheet, req, call>>

NoCall == [op |-> "none"]

Init ==
  /\ cfg \in HandlerConfigs
  /\ now = NowStart
  /\ calendar = {}
  /\ sheet = <<>>
  /\ req = [r \in Reqs |-> IdleReq]
  /\ call = NoCall

Next ==
  \/ \E r \in Reqs : BookDemoStart(r)
  \/ \E r \in Reqs : AltBusyReply(r)
  \/ \E r \in Reqs : BusyReply(r)
  \/ \E r \in Reqs : NearbyBusyReply(r)
  \/ \E r \in Reqs : InsertReply(r)
  \/ \E r \in Reqs : AppendReply(r)
  \/ \E r \in Reqs : CallFails(r)
  \/ Tick
  \/ ExtAdd
  \/ ExtRemove

Spec == Init /\ [][Next]_vars

(***************************************************************************)
(* buildCandidateSlots executed one loop iteration at a time               *)
(***************************************************************************)
\* the number of pushed slots the record of a run keeps
MaxRecorded == 8

LoopConfigs ==
  {[lead |-> 120, duration |-> 30, step |-> 30, days |-> 2,
    startHour |-> 9, endHour |-> 11, creds |-> TRUE],
   [lead |-> 0, duration |-> 45, step |-> 20, days |-> 2,
    startHour |-> 9, endHour |-> 11, creds |-> TRUE],
   [lead |-> 0, duration |-> 0, step |-> 30, days |-> 1,
    startHour |-> 9, endHour |-> 9, creds |-> TRUE],
   [lead |-> 120, duration |-> 30, step |-> 0, days |-> 2,
    startHour |-> 9, endHour |-> 11, creds |-> TRUE]}

LoopNows ==
  {At(0, 8, 0, 0), At(0, 9, 10, 20), At(3, 9, 30, 0), At(4, 15, 30, 0),
   At(5, 10, 0, 0), At(6, 23, 30, 0)}

\* slots.push(...), of which the record keeps the first MaxRecorded
Push(slots, s) == IF Len(slots) < MaxRecorded THEN Append(slots, s) ELSE slots

\* entry of buildCandidateSlots: earliest is computed, slots is empty
LoopEnter ==
  /\ call = NoCall
  /\ call' = [op |-> "loop", pc |-> "for", d |-> 0, cursor |-> 0, end |-> 0,
              earliest |-> now + Minutes(MIN_LEAD_MINUTES),
              slots |-> <<>>, iterations |-> 0]
  /\ UNCHANGED <<cfg, now, calendar, sheet, req>>

\* the head of the for loop: the next day, or the return
LoopDay ==
  /\ call.op = "loop" /\ call.pc = "for"
  /\ LET day == startOfDay(call.earliest) + Days(call.d)
     IN call' = IF call.d >= SEARCH_DAYS
                THEN [call EXCEPT !.pc = "returned"]
                ELSE IF ~isWeekday(day)
                THEN [call EXCEPT !.d = @ + 1]
                ELSE [call EXCEPT !.pc = "while",
                                  !.cursor = setHour(day, WORK_START_HOUR),
                                  !.end = setHour(day, WORK_END_HOUR)]
  /\ UNCHANGED <<cfg, now, calendar, sheet, req>>

\* the test of the while loop and one run of its body; iterations is the
\* parity of the number of bodies run
LoopStep ==
  /\ call.op = "loop" /\ call.pc = "while"
  /\ call' = IF call.cursor + Minutes(DEMO_DURATION_MINUTES) <= call.end
             THEN [call EXCEPT
                     !.slots = IF call.cursor >= call.earliest
                               THEN Push(@, [start |-> call.cursor,
                                             end |-> call.cursor
                                                       + Minutes(DEMO_DURATION_MINUTES)])
                               ELSE @,
                     !.cursor = @ + Minutes(SLOT_GRANULARITY_MINUTES),
                     !.iterations = 1 - @]
             ELSE [call EXCEPT !.pc = "for", !.d = @ + 1]
  /\ UNCHANGED <<cfg, now, calendar, sheet, req>>

InitLoop ==
  /\ cfg \in LoopConfigs
  /\ now \in LoopNows
  /\ calendar = {}
  /\ sheet = <<>>
  /\ req = [r \in Reqs |-> IdleReq]
  /\ call = NoCall

NextLoop == LoopEnter \/ LoopDay \/ LoopStep

\* the function runs synchronously: an enabled step of it is taken
SpecLoop ==
  InitLoop /\ [][NextLoop]_vars
    /\ WF_vars(LoopEnter) /\ WF_vars(LoopDay) /\ WF_vars(LoopStep)

(***************************************************************************)
(* book_demo requests executed one after another                           *)
(***************************************************************************)
SeqInputs ==
  {ISOIn(At(0, 10, 0, 0), DEFAULT_TIMEZONE), ISOIn(At(0, 10, 30, 0), 0),
   ISOIn(At(0, 10, 0, 30), DEFAULT_TIMEZONE)}

\* a request arrives when no other request is being handled
BookDemoStartSeq(r) ==
  /\ req[r].pc = "idle"
  /\ \A r0 \in Reqs : r0 < r => req[r0].pc = "done"
  /\ \E start_time \in SeqInputs :
       req' = [req EXCEPT ![r] = BookDemoEntry(@, TRUE, start_time)]
  /\ UNCHANGED <<cfg, now, calendar, sheet, call>>

NextSeq ==
  \/ \E r \in Reqs : BookDemoStartSeq(r)
  \/ \E r \in Reqs : AltBusyReply(r)
  \/ \E r \in Reqs : BusyReply(r)
  \/ \E r \in Reqs : NearbyBusyReply(r)
  \/ \E r \in Reqs : InsertReply(r)
  \/ \E r \in Reqs : AppendReply(r)
  \/ \E r \in Reqs : CallFails(r)
  \/ Tick
  \/ ExtAdd
  \/ ExtRemove

SpecSeq == Init /\ [][NextSeq]_vars

\* The clock advances and the calendar's other users keep editing it.
\* Nothing is assumed of the answers of the external services: a call may
\* stay unanswered, and the handlers arm no timer of their own.
SpecLive ==
  Init /\ [][Next]_vars /\ WF_vars(Tick) /\ WF_vars(ExtAdd) /\ WF_vars(ExtRemove)

(***************************************************************************)
(* All four routes, with a calendar that may be booked solid and with      *)
(* credentials that may be unusable                                        *)
(***************************************************************************)
\* a block that covers every candidate the routes can look at
BlockedWeeks == [start |-> At(0, 0, 0, 0), end |-> At(14, 0, 0, 0), owner |-> 0]

ApiConfigs ==
  {[lead |-> 120, duration |-> 30, step |-> 30, days |-> 2,
    startHour |-> 9, endHour |-> 11, creds |-> c] : c \in BOOLEAN}
    \cup {[lead |-> 120, duration |-> 30, step |-> 30, days |-> 0,
           startHour |-> 9, endHour |-> 11, creds |-> TRUE]}

InitApi ==
  /\ cfg \in ApiConfigs
  /\ now = NowStart
  /\ calendar \in {{}, {BlockedWeeks}}
  /\ sheet = <<>>
  /\ req = [r \in Reqs |-> IdleReq]
  /\ call = NoCall

NextApi ==
  \/ \E r \in ApiReqs : BookDemoStart(r)
  \/ \E r \in ApiReqs : AltBusyReply(r)
  \/ \E r \in ApiReqs : BusyReply(r)
  \/ \E r \in ApiReqs : NearbyBusyReply(r)
  \/ \E r \in ApiReqs : InsertReply(r)
  \/ \E r \in ApiReqs : AppendReply(r)
  \/ \E r \in ApiReqs : GetSlotsStart(r)
  \/ \E r \in ApiReqs : GetSlotsReply(r)
  \/ \E r \in ApiReqs : CheckAvailabilityStart(r)
  \/ \E r \in ApiReqs : CheckAvailabilityAltReply(r)
  \/ \E r \in ApiReqs : CheckAvailabilityReply(r)
  \/ \E r \in ApiReqs : GetNearbyStart(r)
  \/ \E r \in ApiReqs : GetNearbyAltReply(r)
  \/ \E r \in ApiReqs : GetNearbyReply(r)
  \/ \E r \in ApiReqs : CallFails(r)
  \/ Tick
  \/ ExtAdd
  \/ ExtRemove

SpecApi == InitApi /\ [][NextApi]_vars

(***************************************************************************)
(* The pure functions applied to enumerated inputs                         *)
(***************************************************************************)
FnValidate ==
  /\ call = NoCall
  /\ \E s \in FnInputs :
       call' = [op |-> "validate", input |-> s, now |-> now,
                result |-> validateRequestedStart(s, now)]
  /\ UNCHANGED <<cfg, now, calendar, sheet, req>>

FnBuild ==
  /\ call = NoCall
  /\ call' = [op |-> "build", now |-> now, result |-> buildCandidateSlots(now)]
  /\ UNCHANGED <<cfg, now, calendar, sheet, req>>

FnNext ==
  /\ call = NoCall
  /\ \E busy \in SUBSET FnBusy, count \in FnCounts :
       call' = [op |-> "next", now |-> now, busy |-> busy, count |-> count,
                candidates |-> buildCandidateSlots(now),
                result |-> NextAvailableFrom(buildCandidateSlots(now), busy, count)]
  /\ UNCHANGED <<cfg, now, calendar, sheet, req>>

FnNearby ==
  /\ call = NoCall
  /\ \E preferred \in FnPreferred, busy \in SUBSET FnBusy, count \in FnCounts :
       call' = [op |-> "nearby", preferred |-> preferred, busy |-> busy,
                count |-> count,
                result |-> findNearbyFreeSlots(NearbyCandidates(preferred), busy,
                                               preferred, count)]
  /\ UNCHANGED <<cfg, now, calendar, sheet, req>>

InitFn ==
  /\ cfg \in FnConfigs
  /\ now \in FnNows
  /\ calendar = {}
  /\ sheet = <<>>
  /\ req = [r \in Reqs |-> IdleReq]
  /\ call = NoCall

NextFn == FnValidate \/ FnBuild \/ FnNext \/ FnNearby

SpecFn == InitFn /\ [][NextFn]_vars

(***************************************************************************)
(* Properties of the book_demo handler (specification Spec)                *)
(***************************************************************************)
InstantOf(iso) == iso.wall - iso.off

\* the request has issued the call op
Issued(q, op) ==
  \E i \in 1..Len(q.calls) : q.calls[i].op = op /\ q.calls[i].phase = "call"

\* C1 (reservation part): every events.insert call of a request comes after
\* its validation succeeded and after a busy query for exactly
\* [start, start + duration] returned no interval overlapping that slot
C1_InsertAfterFreeCheck(q) ==
  \A i \in 1..Len(q.calls) :
    (q.calls[i].op = "insert" /\ q.calls[i].phase = "call") =>
      /\ q.validation.ok
      /\ LET s == InstantOf(q.calls[i].timeMin)
             e == InstantOf(q.calls[i].timeMax)
         IN /\ s = q.validation.start
            /\ e = s + Minutes(DEMO_DURATION_MINUTES)
            /\ \E j \in 2..(i - 1) :
                 /\ q.calls[j].op = "freebusy" /\ q.calls[j].phase = "return"
                 /\ q.calls[j - 1].op = "freebusy" /\ q.calls[j - 1].phase = "call"
                 /\ InstantOf(q.calls[j - 1].timeMin) = s
                 /\ InstantOf(q.calls[j - 1].timeMax) = e
                 /\ \A b \in q.calls[j].busy : ~(b.start < e /\ s < b.end)

\* C1 (log part): every values.append call comes after events.insert returned
C1_AppendAfterInsert(q) ==
  \A i \in 1..Len(q.calls) :
    (q.calls[i].op = "append" /\ q.calls[i].phase = "call") =>
      \E j \in 1..(i - 1) : q.calls[j].op = "insert" /\ q.calls[j].phase = "return"

\* C1: in every execution of book_demo the reservation is issued only after
\* validation succeeded and a busy query for exactly the slot's window found
\* nothing overlapping, and the log append only after the reservation returned
C1_ReserveOnlyAfterCheck ==
  \A r \in Reqs : C1_InsertAfterFreeCheck(req[r]) /\ C1_AppendAfterInsert(req[r])

\* a request has reserved and issued its log append
C1_Witness ==
  \E r \in Reqs : Issued(req[r], "insert") /\ Issued(req[r], "append")

\* C2: no lock - a request whose busy query finds its slot free goes on to
\* reserve it even while another request's reservation of the same window is
\* already in flight
C2_NoMutualExclusion ==
  [][\A r, r2 \in Reqs :
       (/\ r # r2
        /\ req[r].pc = "await_busy"
        /\ req[r2].pc = "await_insert"
        /\ req[r2].start = req[r].start
        /\ \A e \in calendar : ~(e.start < req[r].end /\ req[r].start < e.end)
        /\ req'[r].pc \notin {"await_busy", "done"})
       => req'[r].pc = "await_insert"]_vars

\* two requests were both told the slot is free and the calendar holds two
\* reservations of the same window
C2_Witness ==
  \E e1, e2 \in calendar :
    /\ e1.owner # 0 /\ e2.owner # 0 /\ e1.owner # e2.owner
    /\ e1.start = e2.start /\ e1.end = e2.end
    /\ \A r \in {e1.owner, e2.owner} :
         \E j \in 1..Len(req[r].calls) :
           /\ req[r].calls[j].op = "freebusy" /\ req[r].calls[j].phase = "return"
           /\ req[r].calls[j].busy = {}

\* C3: a confirmed response returns the requested instant as start_time,
\* start + DEMO_DURATION_MINUTES as end_time, and the reservation issued to
\* the calendar carries the same start and end
C3_ConfirmedSlotUnchanged ==
  \A r \in Reqs :
    req[r].response.status = "confirmed" =>
      LET s == InstantOf(req[r].start_time)
          e == s + Minutes(DEMO_DURATION_MINUTES)
      IN /\ InstantOf(req[r].response.start_time) = s
         /\ InstantOf(req[r].response.end_time) = e
         /\ \E i \in 1..Len(req[r].calls) :
              /\ req[r].calls[i].op = "insert" /\ req[r].calls[i].phase = "call"
              /\ InstantOf(req[r].calls[i].timeMin) = s
              /\ InstantOf(req[r].calls[i].timeMax) = e
         /\ \E ev \in calendar : ev.owner = r /\ ev.start = s /\ ev.end = e

\* a request written with a UTC offset was confirmed
C3_Witness ==
  \E r \in Reqs :
    /\ req[r].response.status = "confirmed"
    /\ req[r].start_time.off # DEFAULT_TIMEZONE

\* the request carries a parsed instant earlier than now + MIN_LEAD_MINUTES
TooEarly(q) ==
  /\ q.start_time.kind = "iso"
  /\ InstantOf(q.start_time) < q.nowRead + Minutes(MIN_LEAD_MINUTES)

C10_AlternativesExcludeRequested ==
  \A r \in Reqs :
    req[r].response.status = "unavailable" =>
      /\ Len(req[r].response.alternatives) <= 2
      /\ \A k \in 1..Len(req[r].response.alternatives) :
           InstantOf(req[r].response.alternatives[k].start_time)
             # InstantOf(req[r].start_time)

(***************************************************************************)
(* Properties of the pure functions (specification SpecFn)                 *)
(***************************************************************************)
\* the five checks of the validator, each stated on its own: TRUE when the
\* input fails it
ValidationFailures(s, n) ==
  LET t == s.wall - s.off
      local == t + DEFAULT_TIMEZONE
      secondOfDay == local % Days(1)
  IN <<s.kind # "iso",
       t < n + Minutes(MIN_LEAD_MINUTES),
       ((local \div Days(1)) % 7) \notin 0..4,
       \/ secondOfDay < Hours(WORK_START_HOUR)
       \/ secondOfDay + Minutes(DEMO_DURATION_MINUTES) > Hours(WORK_END_HOUR),
       ((local % Hours(1)) \div 60) % SLOT_GRANULARITY_MINUTES # 0>>

\* the rejection messages of check 1 .. check 5
RejectionMessages ==
  <<{"Missing start_time.", "Invalid start_time format."},
    {"That time is in the past or too soon."},
    {"Demos are Monday through Friday only."},
    {"Demos can only be booked between the work hours."},
    {"Please choose a time on a step boundary."}>>

\* C5: the validator rejects with the reason of the first check, in the order
\* malformed, too soon, non-business day, outside hours, off granularity,
\* that the input fails, and accepts when it fails none
C5_FirstFailedCheckDecides ==
  call.op = "validate" =>
    LET fails == ValidationFailures(call.input, call.now)
        failed == {i \in 1..5 : fails[i]}
    IN IF failed = {}
       THEN call.result.ok
       ELSE /\ ~call.result.ok
            /\ \E i \in failed :
                 /\ \A j \in failed : i <= j
                 /\ call.result.message \in RejectionMessages[i]

\* a Saturday at least now + lead away, also outside hours and off the
\* boundary, was rejected as a non-business day
C5_Witness ==
  /\ call.op = "validate"
  /\ LET fails == ValidationFailures(call.input, call.now)
     IN ~fails[1] /\ ~fails[2] /\ fails[3] /\ fails[4] /\ fails[5]
  /\ call.result.message = "Demos are Monday through Friday only."

\* C6: every slot of buildCandidateSlots lasts the duration, starts at or
\* after now + lead, on Monday-Friday, at or after WORK_START_HOUR:00 and ends
\* at or before WORK_END_HOUR:00 of the same local day
C6_SlotsWellFormed ==
  call.op = "build" =>
    \A i \in 1..Len(call.result) :
      LET s == call.result[i]
          local == s.start + DEFAULT_TIMEZONE
          secondOfDay == local % Days(1)
      IN /\ s.end - s.start = Minutes(DEMO_DURATION_MINUTES)
         /\ s.start >= call.now + Minutes(MIN_LEAD_MINUTES)
         /\ ((local \div Days(1)) % 7) \in 0..4
         /\ secondOfDay >= Hours(WORK_START_HOUR)
         /\ secondOfDay + (s.end - s.start) <= Hours(WORK_END_HOUR)

\* slots were generated past a skipped weekend
C6_Witness ==
  /\ call.op = "build"
  /\ Len(call.result) > 0
  /\ call.result[1].start > call.now + Minutes(MIN_LEAD_MINUTES) + Days(2)

\* the starts WORK_START_HOUR:00 + k*step the generator has to emit
ExpectedStarts(n) ==
  LET earliest == n + Minutes(MIN_LEAD_MINUTES)
      day0 == earliest - ((earliest + DEFAULT_TIMEZONE) % Days(1))
      maxK == ((WORK_END_HOUR - WORK_START_HOUR) * 60) \div SLOT_GRANULARITY_MINUTES
      StartAt(d, k) ==
        day0 + Days(d) + Hours(WORK_START_HOUR) + k * Minutes(SLOT_GRANULARITY_MINUTES)
      Wanted(d, k) ==
        /\ (((day0 + DEFAULT_TIMEZONE) \div Days(1)) + d) % 7 \in 0..4
        /\ StartAt(d, k) >= earliest
        /\ StartAt(d, k) + Minutes(DEMO_DURATION_MINUTES)
             <= day0 + Days(d) + Hours(WORK_END_HOUR)
  IN {StartAt(p[1], p[2]) :
        p \in {q \in (0..(SEARCH_DAYS - 1)) \X (0..maxK) : Wanted(q[1], q[2])}}

\* the configuration of the scenario: lead 120, duration 30, step 30, 9-17,
\* 14 days
ScenarioConfig ==
  [lead |-> 120, duration |-> 30, step |-> 30, days |-> 14,
   startHour |-> 9, endHour |-> 17, creds |-> TRUE]

\* C7: buildCandidateSlots emits every boundary start of a business day of the
\* horizon that is at or after earliest and ends within hours; its first
\* element is the earliest of them (Monday 10:00-10:30 in the scenario)
C7_GeneratorComplete ==
  call.op = "build" =>
    LET expected == ExpectedStarts(call.now)
        starts == {call.result[i].start : i \in 1..Len(call.result)}
    IN /\ expected \subseteq starts
       /\ expected # {} =>
            /\ Len(call.result) > 0
            /\ \A t \in expected : call.result[1].start <= t
            /\ call.result[1].start \in expected
       /\ (cfg = ScenarioConfig /\ call.now = At(0, 8, 0, 0)) =>
            call.result[1] = [start |-> At(0, 10, 0, 0), end |-> At(0, 10, 30, 0)]

\* the scenario: now = Monday 08:00 gives Monday 10:00-10:30 first
C7_Witness ==
  /\ call.op = "build"
  /\ cfg = ScenarioConfig
  /\ call.now = At(0, 8, 0, 0)
  /\ Len(call.result) > 0
  /\ call.result[1].start = call.now + Minutes(MIN_LEAD_MINUTES)

\* half-open overlap: a.start < b.end AND b.start < a.end
HalfOpenOverlap(a, b) == a.start < b.end /\ b.start < a.end

\* the position in the candidate sequence of a returned item
CandidateIndex(candidates, item) ==
  {i \in 1..Len(candidates) :
     /\ candidates[i].start = InstantOf(item.start_time)
     /\ candidates[i].end = InstantOf(item.end_time)}

\* C8: the free slots returned are a subsequence of the candidates, in their
\* order, none overlapping a busy interval (half-open overlap), and a
\* candidate that only touches busy intervals is kept: the first returned slot
\* is the first candidate no busy interval overlaps
C8_FilterIsFreeSubsequence ==
  call.op = "next" =>
    LET res == call.result
        cands == call.candidates
        freeIdx == {i \in 1..Len(cands) :
                      \A b \in call.busy : ~HalfOpenOverlap(cands[i], b)}
    IN /\ \A k \in 1..Len(res) : CandidateIndex(cands, res[k]) # {}
       /\ \A k \in 1..(Len(res) - 1) :
            \A i \in CandidateIndex(cands, res[k]) :
              \A j \in CandidateIndex(cands, res[k + 1]) : i < j
       /\ \A k \in 1..Len(res) :
            \A b \in call.busy :
              ~HalfOpenOverlap([start |-> InstantOf(res[k].start_time),
                                end |-> InstantOf(res[k].end_time)], b)
       /\ freeIdx # {} =>
            /\ Len(res) > 0
            /\ \A i \in freeIdx : \E j \in CandidateIndex(cands, res[1]) : j <= i

\* a returned slot ends where a busy interval starts, another starts where a
\* busy interval ends
C8_Witness ==
  /\ call.op = "next"
  /\ \E k \in 1..Len(call.result) :
       \E b \in call.busy : InstantOf(call.result[k].end_time) = b.start
  /\ \E k \in 1..Len(call.result) :
       \E b \in call.busy : InstantOf(call.result[k].start_time) = b.end

DistanceOf(item, preferred) ==
  IF InstantOf(item.start_time) >= preferred
  THEN InstantOf(item.start_time) - preferred
  ELSE preferred - InstantOf(item.start_time)

Answered(route) == {r \in Reqs : req[r].route = route /\ req[r].pc = "done"}

\* the number of candidates the busy intervals the request was told leave free
FreeAmong(candidates, q) ==
  IF q.calls = <<>>
  THEN 0
  ELSE Cardinality({i \in 1..Len(candidates) :
                      slotIsFree(candidates[i], LastCall(q).busy)})

\* C11 (as stated): every book_demo response whose status is invalid_time,
\* unavailable or error carries a non-empty list of alternatives, and an
\* invalid_time response carries between 1 and 2 of them.
C11_AlternativesNeverEmpty ==
  \A r \in Answered("book_demo") :
    LET response == req[r].response
    IN response.status \in {"invalid_time", "unavailable", "error"}
         => /\ "alternatives" \in DOMAIN response
            /\ Len(response.alternatives) >= 1
            /\ response.status = "invalid_time" => Len(response.alternatives) <= 2

\* C11 (amended): a book_demo response with status invalid_time or unavailable
\* carries a list of at most 2 alternatives, which is empty exactly when the
\* busy intervals the handler was told leave no candidate free (or no
\* candidate exists); a response with status error carries no alternatives.
C11_AlternativesAtMostTwo ==
  \A r \in Answered("book_demo") :
    LET q == req[r]
        response == q.response
        candidates == IF response.status = "invalid_time"
                      THEN buildCandidateSlots(q.nowRead)
                      ELSE NearbyCandidates(q.start)
    IN /\ response.status \in {"invalid_time", "unavailable"}
            => /\ "alternatives" \in DOMAIN response
               /\ Len(response.alternatives) <= 2
               /\ Len(response.alternatives) = Min(2, FreeAmong(candidates, q))
       /\ response.status = "error" => "alternatives" \notin DOMAIN response

\* an invalid time answered with no alternative because the calendar the
\* handler saw was booked solid
C11_Witness ==
  \E r \in Answered("book_demo") :
    /\ req[r].response.status = "invalid_time"
    /\ req[r].response.alternatives = <<>>
    /\ req[r].calls # <<>>
    /\ LastCall(req[r]).phase = "return"
    /\ buildCandidateSlots(req[r].nowRead) # <<>>

(***************************************************************************)
(* C12  A failed external call is answered once, with status error         *)
(***************************************************************************)
\* some call of the request threw
Failed(q) == \E i \in 1..Len(q.calls) : q.calls[i].phase = "throw"

\* C12: in get_slots, check_availability, get_nearby_slots and book_demo, a
\* failure of any external call (credentials, busy query, reservation, log
\* append) ends the request with exactly one response, of status error; no
\* request is left without a response by a failure, and none answers twice.
C12_FailureAnsweredOnce ==
  \A r \in Reqs :
    LET q == req[r]
    IN /\ q.sent <= 1
       /\ q.pc = "done" <=> q.sent = 1
       /\ Failed(q) => /\ q.pc = "done"
                       /\ q.sent = 1
                       /\ q.response.status = "error"
                       /\ LastCall(q).phase = "throw"
       /\ q.pc # "idle" => q.route \in {"get_slots", "check_availability",
                                         "get_nearby_slots", "book_demo"}

\* the busy query of findNearbyFreeSlots failed inside get_nearby_slots
C12_Witness ==
  \E r \in Answered("get_nearby_slots") :
    /\ req[r].validation.ok
    /\ LastCall(req[r]).phase = "throw"
    /\ LastCall(req[r]).op = "freebusy"
    /\ req[r].response = CatchResponse

(***************************************************************************)
(* C13  A log-append failure leaves the reservation committed              *)
(***************************************************************************)
\* the reservation returned and the log append that followed it threw
AppendFailedAfterInsert(q) ==
  /\ Len(q.calls) >= 4
  /\ LastCall(q).op = "append" /\ LastCall(q).phase = "throw"
  /\ q.calls[Len(q.calls) - 2].op = "insert"
  /\ q.calls[Len(q.calls) - 2].phase = "return"

\* C13: when the reservation call succeeded and the log append that follows
\* it fails, the handler issues no further calendar call (the failed append
\* is the last entry of its call record) and the reserved event stays in the
\* calendar while the request is answered.
C13_ReservationStaysCommitted ==
  \A r \in Reqs :
    AppendFailedAfterInsert(req[r])
      => /\ req[r].pc = "done"
         /\ [start |-> req[r].start, end |-> req[r].end, owner |-> r] \in calendar
         /\ Cardinality({i \in 1..Len(req[r].calls) :
                           /\ req[r].calls[i].op = "insert"
                           /\ req[r].calls[i].phase = "call"}) = 1
         /\ sheet = SelectSeq(sheet, LAMBDA row : row.owner # r)

\* a request whose insert returned and whose append threw has been answered
C13_Witness ==
  \E r \in Reqs : /\ AppendFailedAfterInsert(req[r])
                  /\ req[r].pc = "done"
                  /\ req[r].response.status = "error"

(***************************************************************************)
(* C14  getNextAvailableSlots returns the first min(n, free) candidates    *)
(***************************************************************************)
\* the free candidates, in the candidates' order
FreeCandidates(candidates, busy) ==
  SelectSeq(candidates, LAMBDA c : slotIsFree(c, busy))

\* C14 (as stated): for every count n >= 0 and every busy set the result is
\* exactly the first min(n, number of free candidates) free candidates in
\* chronological order, never more than n.
C14_ExactlyFirstN ==
  call.op = "next"
    => LET free == FreeCandidates(call.candidates, call.busy)
           k == Min(call.count, Len(free))
       IN /\ Len(call.result) <= call.count
          /\ call.result = [i \in 1..k |-> SlotItem(free[i])]

(***************************************************************************)
(* C15  The business-hours check of validateRequestedStart                 *)
(***************************************************************************)
\* the validator call got as far as the business-hours check
ReachedHoursCheck ==
  /\ call.op = "validate"
  /\ \/ call.result.ok
     \/ call.result.message \in RejectionMessages[4] \cup RejectionMessages[5]

PassedHoursCheck ==
  call.result.ok \/ call.result.message \in RejectionMessages[5]

\* seconds since local midnight of the requested start
RequestedSecondOfDay == Local(fromISO(call.input)) % Days(1)

\* C15 (as stated): the business-hours check passes if and only if both the
\* instant and the instant plus DEMO_DURATION_MINUTES lie in the half-open
\* interval [WORK_START_HOUR:00, WORK_END_HOUR:00) of the local day, so a
\* slot that ends exactly at WORK_END_HOUR:00 is rejected.
C15_HoursHalfOpen ==
  ReachedHoursCheck =>
    (PassedHoursCheck <=>
       /\ RequestedSecondOfDay >= Hours(WORK_START_HOUR)
       /\ RequestedSecondOfDay + Minutes(DEMO_DURATION_MINUTES) < Hours(WORK_END_HOUR))

\* C15 (amended): the business-hours check passes if and only if the instant
\* is at or after WORK_START_HOUR:00 and the instant plus
\* DEMO_DURATION_MINUTES is at or before WORK_END_HOUR:00 of the instant's
\* local day, so a slot that ends exactly at WORK_END_HOUR:00 is accepted.
C15_HoursEndInclusive ==
  ReachedHoursCheck =>
    (PassedHoursCheck <=>
       /\ RequestedSecondOfDay >= Hours(WORK_START_HOUR)
       /\ RequestedSecondOfDay + Minutes(DEMO_DURATION_MINUTES) <= Hours(WORK_END_HOUR))

\* a slot ending exactly at WORK_END_HOUR:00 went through the validator
C15_Witness ==
  /\ ReachedHoursCheck
  /\ call.result.ok
  /\ RequestedSecondOfDay + Minutes(DEMO_DURATION_MINUTES) = Hours(WORK_END_HOUR)

(***************************************************************************)
(* C16  Accepted instants and the granularity boundary                     *)
(***************************************************************************)
\* C16 (as stated): every instant validateRequestedStart accepts starts on a
\* granularity boundary: a whole multiple of SLOT_GRANULARITY_MINUTES from
\* the top of the hour, with zero seconds.
C16_AcceptedOnBoundary ==
  (call.op = "validate" /\ call.result.ok)
    => (Local(call.result.start) % Hours(1)) % Minutes(SLOT_GRANULARITY_MINUTES) = 0

(***************************************************************************)
(* C17  Termination of a booking attempt                                   *)
(***************************************************************************)
\* C17 (as stated): every book_demo attempt that is waiting for an external
\* call eventually reaches a terminal outcome and sends its response, even
\* when the external call never answers.
C17_EveryAttemptAnswered ==
  \A r \in Reqs : (req[r].pc \in AwaitStates) ~> (req[r].pc = "done")

(***************************************************************************)
(* C18  No candidate, or every candidate busy: no_slots, never error       *)
(***************************************************************************)
\* the candidates the listing route of request q filtered
ListedCandidates(q) ==
  IF q.route = "get_slots"
  THEN buildCandidateSlots(q.nowRead)
  ELSE NearbyCandidates(q.start)

\* C18: when no candidate exists or every candidate overlaps a busy interval
\* the handler was told, get_slots and get_nearby_slots (for an accepted
\* preferred time) answer status no_slots with an empty slots list, not
\* error; they answer no_slots exactly when the list is empty.
C18_EmptyIsNoSlots ==
  \A r \in Answered("get_slots") \cup Answered("get_nearby_slots") :
    LET q == req[r]
    IN (~Failed(q) /\ (q.route = "get_nearby_slots" => q.validation.ok))
         => /\ q.response.status \in {"ok", "no_slots"}
            /\ q.response.status = "no_slots" <=> q.response.slots = <<>>
            /\ FreeAmong(ListedCandidates(q), q) = 0
                 => /\ q.response.status = "no_slots"
                    /\ q.response.slots = <<>>

\* get_slots answered no_slots after a busy query that covered every candidate
C18_Witness ==
  \E r \in Answered("get_slots") :
    /\ req[r].response = [status |-> "no_slots", slots |-> <<>>]
    /\ buildCandidateSlots(req[r].nowRead) # <<>>
    /\ req[r].calls # <<>>
    /\ LastCall(req[r]).phase = "return"
    /\ LastCall(req[r]).busy # {}

(***************************************************************************)
(* C19  buildCandidateSlots is strictly ascending                          *)
(***************************************************************************)
\* C19: the sequence buildCandidateSlots returns is strictly ascending in
\* start time, within a day, across day boundaries and across skipped
\* weekends.
C19_StrictlyAscending ==
  call.op = "build"
    => \A i \in 1..Len(call.result) :
         \A j \in 1..Len(call.result) :
           i < j => call.result[i].start < call.result[j].start

\* a generated sequence with neighbours one step apart, neighbours on
\* consecutive days and neighbours on either side of a weekend
C19_Witness ==
  /\ call.op = "build"
  /\ \E i \in 1..(Len(call.result) - 1) :
       call.result[i + 1].start - call.result[i].start
         = Minutes(SLOT_GRANULARITY_MINUTES)
  /\ \E i \in 1..(Len(call.result) - 1) :
       /\ weekday(call.result[i].start) = 1
       /\ weekday(call.result[i + 1].start) = 2
  /\ \E i \in 1..(Len(call.result) - 1) :
       /\ weekday(call.result[i].start) = 5
       /\ weekday(call.result[i + 1].start) = 1
       /\ call.result[i + 1].start - call.result[i].start > Days(2)

(***************************************************************************)
(* C20  findNearbyFreeSlots selects the nearest free candidates            *)
(***************************************************************************)
\* the starts of the free candidates around the preferred instant
FreeStarts(preferred, busy) ==
  LET candidates == NearbyCandidates(preferred)
  IN {candidates[i].start : i \in {k \in 1..Len(candidates) :
                                     slotIsFree(candidates[k], busy)}}

GeneratedStarts(n) ==
  LET candidates == buildCandidateSlots(n)
  IN {candidates[i].start : i \in 1..Len(candidates)}

\* C21 (as stated): every alternative findNearbyFreeSlots returns to a
\* book_demo request is an element of the candidate generator's output for
\* the instant the request read the clock: at or after now + MIN_LEAD_MINUTES,
\* within the SEARCH_DAYS horizon, on a business day, within business hours.
C21_NearbyWithinGenerator ==
  \A r \in Answered("book_demo") :
    req[r].response.status = "unavailable"
      => \A k \in 1..Len(req[r].response.alternatives) :
           InstantOf(req[r].response.alternatives[k].start_time)
             \in GeneratedStarts(req[r].nowRead)

(***************************************************************************)
(* C22  An error response and the request's reservation                    *)
(***************************************************************************)
\* C22 (as stated): whenever book_demo answers with status error, the
\* calendar contains no event created by that request.
C22_ErrorMeansNoReservation ==
  \A r \in Answered("book_demo") :
    req[r].response.status = "error"
      => ~(\E e \in calendar : e.owner = r)

(***************************************************************************)
(* C23  Requests handled one after another never overlap                   *)
(***************************************************************************)
\* the window request q asked for overlaps event e
WindowOverlaps(q, e) == q.start < e.end /\ e.start < q.end

\* C23: when book_demo requests are handled one after another, no two events
\* reserved by requests overlap in time (so no two confirmed reservations
\* do), and a later request whose window overlaps an event an earlier
\* request reserved issues no reservation and, its calls answering, ends
\* unavailable.
C23_SequentialNeverOverlap ==
  /\ \A e1 \in calendar : \A e2 \in calendar :
       (e1.owner # 0 /\ e2.owner # 0 /\ e1 # e2)
         => (e1.end <= e2.start \/ e2.end <= e1.start)
  /\ \A r1 \in Reqs : \A r2 \in Reqs :
       (/\ r1 < r2
        /\ req[r2].pc = "done"
        /\ req[r2].validation.ok
        /\ \E e \in calendar : e.owner = r1 /\ WindowOverlaps(req[r2], e))
         => /\ ~Issued(req[r2], "insert")
            /\ ~Failed(req[r2]) => req[r2].response.status = "unavailable"

\* a confirmed slot, a later request for a window overlapping it without
\* being equal to it answered unavailable
C23_Witness ==
  \E r1 \in Reqs : \E r2 \in Reqs :
    /\ r1 < r2
    /\ req[r1].response.status = "confirmed"
    /\ req[r2].response.status = "unavailable"
    /\ req[r2].start # req[r1].start
    /\ req[r2].start < req[r1].end /\ req[r1].start < req[r2].end

(***************************************************************************)
(* C24  Generator and validator agree                                      *)
(***************************************************************************)
\* C24 (as stated): every slot start buildCandidateSlots emits is accepted by
\* validateRequestedStart evaluated at the same clock reading, for every
\* configuration, steps that do not divide 60 minutes included.
C24_GeneratedAreAccepted ==
  call.op = "build"
    => \A i \in 1..Len(call.result) :
         validateRequestedStart(toISO(call.result[i].start), call.now).ok

(***************************************************************************)
(* C25  Termination of buildCandidateSlots                                 *)
(***************************************************************************)
\* C25 (as stated): for every configuration of non-negative integers a run
\* of buildCandidateSlots reaches its return.
C25_BuildTerminates ==
  (call.op = "loop") ~> (call.op = "loop" /\ call.pc = "returned")

====
